---- MODULE Spec2Model ----
(***************************************************************************)
(* A model of alfred/client.py: AlfredWorkflowClient (run, update,         *)
(* add_result, error_response, response) together with the info.plist      *)
(* file that update() loads and dumps and the clock that it reads.         *)
(*                                                                         *)
(* Python dicts (the plist, a release, a response) are TLA+ functions      *)
(* whose DOMAIN is the set of keys the dict holds, so "key absent" is      *)
(* k \notin DOMAIN d and d[k] on an absent key is the KeyError of Python.  *)
(***************************************************************************)
EXTENDS Integers, Sequences, FiniteSets, TLC

\* ------------------------------------------------------------------ bounds
\* clock ticks per second: time() is a float, int(time()) drops the fraction
TicksPerSecond == 2
\* how many sub-second ticks and how many whole poll intervals the clock advances
MaxSmallTicks == 1
MaxIntervals == 2
\* calls of update() over a whole behaviour, items a main adds itself
MaxUpdates == 2
\* the same, in behaviours that begin with a record that is not pending
MaxUpdatesFresh == 3
MaxResults == 1

\* ------------------------------------------------------------ python dicts
Has(d, k) == k \in DOMAIN d
Get(d, k, default) == IF k \in DOMAIN d THEN d[k] ELSE default
Put(d, k, v) == [x \in (DOMAIN d) \cup {k} |-> IF x = k THEN v ELSE d[x]]
EmptyDict == [x \in {} |-> 0]

\* ---------------------------------------------------------------- versions
\* A version string "[v]N(.N)*[rcN]" is the record of its parts: prefix is "v" or
\* "", rel the dotted numbers, pre the rc number (0: no pre-release segment).
VStr(prefix, rel, pre) == [prefix |-> prefix, rel |-> rel, pre |-> pre]
V_1_0_0 == VStr("", <<1, 0, 0>>, 0)
V_v1_0 == VStr("v", <<1, 0>>, 0)
V_1_0_0rc1 == VStr("", <<1, 0, 0>>, 1)
V_1_1_0 == VStr("", <<1, 1, 0>>, 0)

RECURSIVE StripZeros(_)
\* packaging.version._cmpkey: trailing zeros of the release are dropped
StripZeros(rel) ==
    IF rel # <<>> /\ rel[Len(rel)] = 0
    THEN StripZeros(SubSeq(rel, 1, Len(rel) - 1))
    ELSE rel

\* version.parse(s): the comparison key of a Version (the "v" prefix is dropped)
VersionParse(s) == [release |-> StripZeros(s.rel), pre |-> s.pre]

RECURSIVE TupleLess(_, _)
\* Python's tuple order: lexicographic, a proper prefix is smaller
TupleLess(a, b) ==
    IF b = <<>> THEN FALSE
    ELSE IF a = <<>> THEN TRUE
    ELSE IF a[1] # b[1] THEN a[1] < b[1]
    ELSE TupleLess(Tail(a), Tail(b))

\* a pre-release sorts before the final release (whose pre key is Infinity)
PreLess(p, q) == p # 0 /\ (q = 0 \/ p < q)

\* mutant of VersionGreater: the release numbers alone are compared
VersionGreaterReleaseOnly(a, b) == TupleLess(b.release, a.release)
\* Version.__gt__ on the keys: a > b
VersionGreater(a, b) ==
    \/ TupleLess(b.release, a.release)
    \/ b.release = a.release /\ PreLess(b.pre, a.pre)

\* ------------------------------------------------------------------- time
PollInterval == 7 * 24 * 60 * 60
\* mutant of IntTime: the reading is rounded to the nearest second
IntTimeRounds(c) == (2 * c + TicksPerSecond) \div (2 * TicksPerSecond)
\* int(time()) of a clock reading in ticks
IntTime(c) == c \div TicksPerSecond
\* mutants of PollDue: the interval test off by one, and inverted
PollDueAtInterval(now, d) ==
    now - TicksPerSecond * Get(d, "lastcheckedtime", 0) >= PollInterval * TicksPerSecond
PollDueInverted(now, d) ==
    now - TicksPerSecond * Get(d, "lastcheckedtime", 0) < PollInterval * TicksPerSecond
\* time() - plist.get("lastcheckedtime", 0) > 7 * 24 * 60 * 60, with time() = now
\* ticks and the stored value in seconds
PollDue(now, d) ==
    now - TicksPerSecond * Get(d, "lastcheckedtime", 0) > PollInterval * TicksPerSecond

\* ------------------------------------------------------------- info.plist
\* The file is absent, or holds a dict in the xml or the binary plist format, or
\* was opened for writing and holds nothing yet.
NoFile == [fmt |-> "nofile"]
\* open("info.plist", "wb") before dump() has written: a file of 0 bytes
Truncated == [fmt |-> "empty"]
Exists(f) == f.fmt # "nofile"
\* plistlib.load reads either format, and raises InvalidFileException on a file that
\* holds no plist
Loadable(f) == f.fmt \in {"xml", "binary"}
Load(f) == f.dict
\* plistlib.dump: written in the default format, FMT_XML
Dump(d) == [fmt |-> "xml", dict |-> d]

\* ---------------------------------------------------------------- results
\* AlfredResult(title, subtitle, icon, arg); icon is <<>> for None, <<path>> for
\* AlfredResult.Icon(path)
AlfredResult(title, subtitle, icon, arg) ==
    [title |-> title, subtitle |-> subtitle, icon |-> icon, arg |-> arg]
\* "http" in str(icon_path)
IsHttp(path) == path \in {"http://icon.png"}
\* what a caller's http_downloader returns: the local path of the downloaded icon
Download(path) == "cache/icon.png"
\* mutant of add_result: the new result is put first
add_result_prepends(rs, title, subtitle, icon_path, arg, has_downloader) ==
    LET path == IF has_downloader /\ IsHttp(icon_path) THEN Download(icon_path) ELSE icon_path
        icon == IF icon_path # "" THEN <<path>> ELSE <<>>
    IN  <<AlfredResult(title, subtitle, icon, arg)>> \o rs
\* add_result(title, subtitle, icon_path, arg, http_downloader): the new results list
\* (has_downloader: an http_downloader was passed)
add_result(rs, title, subtitle, icon_path, arg, has_downloader) ==
    LET path == IF has_downloader /\ IsHttp(icon_path) THEN Download(icon_path) ELSE icon_path
        icon == IF icon_path # "" THEN <<path>> ELSE <<>>
    IN  Append(rs, AlfredResult(title, subtitle, icon, arg))
\* AlfredResult.to_dict: the entry of the payload's items list
ToDict(r) == [title |-> r.title, subtitle |-> r.subtitle, icon |-> r.icon, arg |-> r.arg]
\* json.dumps({"items": [result.to_dict() for result in self.results]})
Payload(rs) == [items |-> [i \in 1..Len(rs) |-> ToDict(rs[i])]]

\* the two results update() adds
FailedTitle == <<"Update failed">>
AvailableTitle(current, latest) == <<"Update available", current, latest>>
AddFailed(rs) ==
    add_result(rs, FailedTitle, "Could not get latest release", "alfred/icons/failed.png",
              "", FALSE)
\* mutant of AddAvailable: the two versions of the title are swapped
AddAvailableSwapped(rs, current, latest, url) ==
    add_result(rs, AvailableTitle(latest, current), "Hold shift and enter to update",
              "alfred/icons/updated.png", url, FALSE)
AddAvailable(rs, current, latest, url) ==
    add_result(rs, AvailableTitle(current, latest), "Hold shift and enter to update",
              "alfred/icons/updated.png", url, FALSE)

\* ------------------------------------------------------------------ inputs
Asset(u) == [browser_download_url |-> u]
Release(t, as) == [tag_name |-> t, assets |-> as]
Releases ==
    { Release(V_1_1_0, <<Asset("url1")>>),
      Release(V_1_1_0, <<Asset("url2"), Asset("url1")>>),
      Release(V_v1_0, <<Asset("url2"), Asset("url1")>>),
      Release(V_1_1_0, <<>>),
      [assets |-> <<Asset("url1")>>] }
\* the body of a response: releases[0] is the newest release
ReleaseLists ==
    {<<>>} \cup {<<r>> : r \in Releases}
        \cup {<<Release(V_1_0_0rc1, <<Asset("url1")>>), Release(V_1_1_0, <<Asset("url2")>>)>>}
\* what session.get(...) resolves to: a transport error, or a response, of which
\* the status is known and the body not yet read
TransportError == [error |-> "ClientConnectorError"]
Statuses == {TransportError, [status |-> 500], [status |-> 200]}
\* what response.json() resolves to: a transport error, or the response with its body
Bodies == {TransportError} \cup {[status |-> 200, releases |-> rl] : rl \in ReleaseLists}
\* what a main passes to add_result: title, icon_path, whether with http_downloader
UserItems ==
    { [title |-> <<"grinning face">>, icon_path |-> "", dl |-> FALSE],
      [title |-> <<"party popper">>, icon_path |-> "http://icon.png", dl |-> TRUE] }

\* the records of a workflow as shipped (Alfred writes version only), and as an
\* earlier poll that found nothing newer left them
PlistsFresh ==
    { [version |-> V_1_0_0],
      [version |-> V_1_0_0rc1],
      [version |-> V_1_0_0, lastcheckedtime |-> 0, latestversion |-> V_v1_0,
       downloadurl |-> "url2", needupdate |-> FALSE] }
\* a record in which an earlier successful poll found a newer release
PlistsPending ==
    { [version |-> V_1_0_0, lastcheckedtime |-> PollInterval, latestversion |-> V_1_1_0,
       downloadurl |-> "url1", needupdate |-> TRUE] }
Files ==
    {[fmt |-> "binary", dict |-> [version |-> V_1_0_0]]}
        \cup {[fmt |-> "xml", dict |-> d] : d \in PlistsFresh \cup PlistsPending}

\* ------------------------------------------------------------------- state
VARIABLES
    clock,      \* time(), in ticks
    store,      \* info.plist
    pc,         \* "idle", "main", where update() stands: "await" (suspended in
                \* session.get), "json" (suspended in response.json()), "aexit"
                \* (suspended in leaving the two async with blocks), "dump" (info.plist
                \* opened for writing, not yet written), and "exited", "crashed", "killed"
    plist,      \* update()'s local dict while update() runs past session.get
    results,    \* self.results
    out,        \* what the process has printed: its payloads
    exit,       \* <<>> while the process runs, <<code>> after
    exc,        \* the exception that ended the process, "" if none
    netCalls,   \* session.get calls this process has issued
    updates,    \* update() calls so far
    calls,      \* history: the add_result calls of this process, as (title, arg)
    writes,     \* history: the lastcheckedtime of every dump to info.plist, oldest
                \* first (<<>>: the dumped dict holds none)
    reads,      \* history: loads of info.plist by this process
    initial,    \* history: info.plist as it was before the first process
    prev,       \* history: how the most recent update() call of any process went
                \* ("none", "await", "skip", "failed", "fetched", "raised"), and the
                \* lastcheckedtime the most recent successful poll recorded (<<>>: none)
    last        \* history: the latest update() call of this process: phase ("await",
                \* "json", "aexit", "dump", "returned", "raised"), whether it polled, info.plist and the clock
                \* when it began (before, now), the lengths of results and writes and the
                \* counts of netCalls and reads when it began (n0, w0, net0, r0), the
                \* length of results when it ended (n1), what the fetch resolved to
                \* (resp) and the clock when lines 94-116 ran (now2), and prev as it was when it began

vars == <<clock, store, pc, plist, results, out, exit, exc, netCalls, updates,
          calls, writes, reads, initial, prev, last>>

NoCall == [phase |-> "none"]
Running == {"main", "await", "json", "aexit", "dump"}

Init ==
    /\ clock = 0
    /\ store \in Files \cup {NoFile}
    /\ pc = "idle"
    /\ plist = EmptyDict
    /\ results = <<>>
    /\ out = <<>>
    /\ exit = <<>>
    /\ exc = ""
    /\ netCalls = 0
    /\ updates = 0
    /\ calls = <<>>
    /\ writes = <<>>
    /\ reads = 0
    /\ initial = store
    /\ prev = [outcome |-> "none", ok |-> <<>>]
    /\ last = NoCall

\* ----------------------------------------------------------------- clock
BigTick == PollInterval * TicksPerSecond
\* Time passes, at any point of a process and between processes: by one tick or by
\* exactly the poll interval.
Tick ==
    /\ \E d \in {1, BigTick} :
          /\ d = 1 => clock % BigTick < MaxSmallTicks
          /\ d = BigTick => clock \div BigTick < MaxIntervals
          /\ clock' = clock + d
    /\ UNCHANGED <<store, pc, plist, results, out, exit, exc, netCalls, updates,
                   calls, writes, reads, initial, prev, last>>

\* --------------------------------------------------------------- processes
\* AlfredWorkflowClient.run, up to the first step of func(client): cls() gives the
\* client an empty results list.
Start ==
    /\ pc \notin Running
    /\ pc' = "main"
    /\ results' = <<>>
    /\ out' = <<>>
    /\ exit' = <<>>
    /\ exc' = ""
    /\ calls' = <<>>
    /\ plist' = EmptyDict
    /\ netCalls' = 0
    /\ reads' = 0
    /\ last' = NoCall
    /\ UNCHANGED <<clock, store, updates, writes, initial, prev>>

\* main calls client.add_result(title, icon_path=..., arg=title, http_downloader=...)
MainAddResult ==
    /\ pc = "main"
    /\ Len(results) < MaxResults
    /\ \E it \in UserItems :
          /\ results' = add_result(results, it.title, "info", it.icon_path, it.title, it.dl)
          /\ calls' = Append(calls, <<it.title, it.title>>)
    /\ UNCHANGED <<clock, store, pc, plist, out, exit, exc, netCalls, updates,
                   writes, reads, initial, prev, last>>

\* response(): print the payload and exit(0)
response(rs) ==
    /\ out' = Append(out, Payload(rs))
    /\ exit' = <<0>>
    /\ pc' = "exited"

\* main returns, and run() calls client.response()
RunResponse ==
    /\ pc = "main"
    /\ response(results)
    /\ UNCHANGED <<clock, store, plist, results, exc, netCalls, updates, calls,
                   writes, reads, initial, prev, last>>

\* main calls client.error_response(title, subtitle): add_result, then response()
error_response ==
    /\ pc = "main"
    /\ LET title == <<"No results">>
           rs == add_result(results, title, "", "", "", FALSE)
       IN  /\ results' = rs
           /\ calls' = Append(calls, <<title, "">>)
           /\ response(rs)
    /\ UNCHANGED <<clock, store, plist, exc, netCalls, updates, writes, reads,
                   initial, prev, last>>

\* the host kills the process
Kill ==
    /\ pc \in Running
    /\ pc' = "killed"
    /\ exit' = <<-9>>
    /\ plist' = EmptyDict
    /\ UNCHANGED <<clock, store, results, out, exc, netCalls, updates, calls,
                   writes, reads, initial, prev, last>>

\* an exception leaves update() and main, which do not catch it, and asyncio.run and
\* run(): the interpreter prints the traceback and exits with status 1
Raise(e) ==
    /\ pc' = "crashed"
    /\ exc' = e
    /\ exit' = <<1>>
    /\ plist' = EmptyDict

\* ------------------------------------------------------------------ update
\* mutant of NewPlist: needupdate is assigned the outcome of the comparison
NewPlistAssignsFlag(d, latest, url, now) ==
    LET newer == VersionGreater(VersionParse(latest), VersionParse(d["version"]))
        d1 == Put(d, "needupdate", newer)
        d2 == Put(d1, "latestversion", latest)
        d3 == Put(d2, "downloadurl", url)
    IN  Put(d3, "lastcheckedtime", IntTime(now))
\* mutant of NewPlist: a newer release sets the flag, and only otherwise are the
\* fetched version and url recorded
NewPlistFlagOrFetched(d, latest, url, now) ==
    LET newer == VersionGreater(VersionParse(latest), VersionParse(d["version"]))
        d1 == IF newer
              THEN Put(d, "needupdate", TRUE)
              ELSE Put(Put(d, "latestversion", latest), "downloadurl", url)
    IN  Put(d1, "lastcheckedtime", IntTime(now))
\* lines 106-116: the dict after a successful fetch of (latest, url) at time now
NewPlist(d, latest, url, now) ==
    LET newer == VersionGreater(VersionParse(latest), VersionParse(d["version"]))
        d1 == IF newer THEN Put(d, "needupdate", TRUE) ELSE d
        d2 == Put(d1, "latestversion", latest)
        d3 == Put(d2, "downloadurl", url)
    IN  Put(d3, "lastcheckedtime", IntTime(now))

\* What update() does up to its first suspension, on file f with results rs at time
\* now (lines 88-93 and 119-125): the exception it raises ("" if none), whether it
\* issues session.get, the results list, and the add_result calls it made.
UpdateBegin(f, rs, now) ==
    IF ~Exists(f)
    THEN [exc |-> "FileNotFoundError", poll |-> FALSE, results |-> rs, added |-> <<>>]
    ELSE IF ~Loadable(f)
    THEN [exc |-> "InvalidFileException", poll |-> FALSE, results |-> rs, added |-> <<>>]
    ELSE LET d == Load(f) IN
         IF PollDue(now, d)
         THEN [exc |-> "", poll |-> TRUE, results |-> rs, added |-> <<>>]
         ELSE IF Get(d, "needupdate", FALSE)
         THEN IF Has(d, "latestversion") /\ Has(d, "downloadurl")
              THEN [exc |-> "", poll |-> FALSE,
                    results |-> AddAvailable(rs, d["version"], d["latestversion"],
                                             d["downloadurl"]),
                    added |-> << <<AvailableTitle(d["version"], d["latestversion"]),
                                   d["downloadurl"]>> >>]
              ELSE [exc |-> "KeyError", poll |-> FALSE, results |-> rs, added |-> <<>>]
         ELSE [exc |-> "", poll |-> FALSE, results |-> rs, added |-> <<>>]

\* mutant of UpdateResume: lastcheckedtime is stamped after a failed fetch too
UpdateResumeStampsFailure(d, rs, resp, now) ==
    LET raise(e) == [exc |-> e, results |-> rs, added |-> <<>>, write |-> <<>>] IN
    IF Has(resp, "error") THEN raise(resp["error"])
    ELSE IF resp["status"] # 200
    THEN [exc |-> "", results |-> AddFailed(rs), added |-> << <<FailedTitle, "">> >>,
          write |-> <<Put(d, "lastcheckedtime", IntTime(now))>>]
    ELSE IF resp["releases"] = <<>> THEN raise("IndexError")
    ELSE LET latest_release == resp["releases"][1] IN
         IF ~Has(latest_release, "tag_name") THEN raise("KeyError")
         ELSE IF latest_release["assets"] = <<>> THEN raise("IndexError")
         ELSE LET latest_version == latest_release["tag_name"]
                  download_url == latest_release["assets"][1]["browser_download_url"]
                  current_version == d["version"]
                  newer == VersionGreater(VersionParse(latest_version),
                                          VersionParse(current_version))
              IN  [exc |-> "",
                   results |-> IF newer
                               THEN AddAvailable(rs, current_version, latest_version,
                                                 download_url)
                               ELSE rs,
                   added |-> IF newer
                             THEN << <<AvailableTitle(current_version, latest_version),
                                       download_url>> >>
                             ELSE <<>>,
                   write |-> <<NewPlist(d, latest_version, download_url, now)>>]
\* mutant of UpdateResume: the pending result of lines 119-125 is added after a poll
\* too (line 119 an if instead of an elif)
UpdateResumeThenPending(d, rs, resp, now) ==
    LET raise(e) == [exc |-> e, results |-> rs, added |-> <<>>, write |-> <<>>]
        pending(o) ==
            LET w == o.write[1] IN
            IF Get(w, "needupdate", FALSE) /\ Has(w, "latestversion") /\ Has(w, "downloadurl")
            THEN [o EXCEPT
                     !.results = AddAvailable(o.results, w["version"], w["latestversion"],
                                              w["downloadurl"]),
                     !.added = o.added \o << <<AvailableTitle(w["version"],
                                                              w["latestversion"]),
                                                w["downloadurl"]>> >>]
            ELSE o
    IN
    IF Has(resp, "error") THEN raise(resp["error"])
    ELSE IF resp["status"] # 200
    THEN pending([exc |-> "", results |-> AddFailed(rs),
                  added |-> << <<FailedTitle, "">> >>, write |-> <<d>>])
    ELSE IF resp["releases"] = <<>> THEN raise("IndexError")
    ELSE LET latest_release == resp["releases"][1] IN
         IF ~Has(latest_release, "tag_name") THEN raise("KeyError")
         ELSE IF latest_release["assets"] = <<>> THEN raise("IndexError")
         ELSE LET latest_version == latest_release["tag_name"]
                  download_url == latest_release["assets"][1]["browser_download_url"]
                  current_version == d["version"]
                  newer == VersionGreater(VersionParse(latest_version),
                                          VersionParse(current_version))
              IN  pending(
                  [exc |-> "",
                   results |-> IF newer
                               THEN AddAvailable(rs, current_version, latest_version,
                                                 download_url)
                               ELSE rs,
                   added |-> IF newer
                             THEN << <<AvailableTitle(current_version, latest_version),
                                       download_url>> >>
                             ELSE <<>>,
                   write |-> <<NewPlist(d, latest_version, download_url, now)>>])
\* What update() does inside the two async with blocks once the fetch has resolved
\* to resp (the status, and for status 200 the body), with its local dict d and
\* results rs at time now (lines 94-116): the exception it raises ("" if none), the
\* results list, the add_result calls it made, and the dict that lines 117-118 will
\* dump (<<>>: none).
UpdateResume(d, rs, resp, now) ==
    LET raise(e) == [exc |-> e, results |-> rs, added |-> <<>>, write |-> <<>>] IN
    IF Has(resp, "error") THEN raise(resp["error"])
    ELSE IF resp["status"] # 200
    THEN [exc |-> "", results |-> AddFailed(rs), added |-> << <<FailedTitle, "">> >>,
          write |-> <<d>>]
    ELSE IF resp["releases"] = <<>> THEN raise("IndexError")
    ELSE LET latest_release == resp["releases"][1] IN
         IF ~Has(latest_release, "tag_name") THEN raise("KeyError")
         ELSE IF latest_release["assets"] = <<>> THEN raise("IndexError")
         ELSE LET latest_version == latest_release["tag_name"]
                  download_url == latest_release["assets"][1]["browser_download_url"]
                  current_version == d["version"]
                  newer == VersionGreater(VersionParse(latest_version),
                                          VersionParse(current_version))
              IN  [exc |-> "",
                   results |-> IF newer
                               THEN AddAvailable(rs, current_version, latest_version,
                                                 download_url)
                               ELSE rs,
                   added |-> IF newer
                             THEN << <<AvailableTitle(current_version, latest_version),
                                       download_url>> >>
                             ELSE <<>>,
                   write |-> <<NewPlist(d, latest_version, download_url, now)>>]

\* the lastcheckedtime a dict holds: <<t>>, or <<>> when the key is absent
Stamp(d) == IF Has(d, "lastcheckedtime") THEN <<d["lastcheckedtime"]>> ELSE <<>>

\* main awaits client.update(user, repo): up to session.get, or to its return (n:
\* the bound on update() calls)
UpdateStartWithin(n) ==
    /\ pc = "main"
    /\ updates < n
    /\ updates' = updates + 1
    /\ LET o == UpdateBegin(store, results, clock) IN
          /\ results' = o.results
          /\ calls' = calls \o o.added
          /\ reads' = IF Exists(store) THEN reads + 1 ELSE reads
          /\ netCalls' = IF o.poll THEN netCalls + 1 ELSE netCalls
          /\ last' = [phase |-> IF o.exc # "" THEN "raised"
                                ELSE IF o.poll THEN "await" ELSE "returned",
                      poll |-> o.poll, before |-> store, now |-> clock,
                      n0 |-> Len(results), net0 |-> netCalls, w0 |-> Len(writes),
                      n1 |-> Len(o.results), r0 |-> reads, resp |-> <<>>, now2 |-> clock,
                      prev |-> prev]
          /\ prev' = [prev EXCEPT !.outcome = IF o.exc # "" THEN "raised"
                                              ELSE IF o.poll THEN "await" ELSE "skip"]
          /\ IF o.exc # ""
             THEN Raise(o.exc)
             ELSE /\ pc' = IF o.poll THEN "await" ELSE "main"
                  /\ plist' = IF o.poll THEN Load(store) ELSE EmptyDict
                  /\ UNCHANGED <<exc, exit>>
    /\ UNCHANGED <<clock, store, out, writes, initial>>

\* mutant of UpdateStart: info.plist is dumped as soon as it is loaded
UpdateStartDumps ==
    /\ pc = "main"
    /\ updates < MaxUpdates
    /\ updates' = updates + 1
    /\ LET o == UpdateBegin(store, results, clock) IN
          /\ results' = o.results
          /\ calls' = calls \o o.added
          /\ reads' = IF Exists(store) THEN reads + 1 ELSE reads
          /\ netCalls' = IF o.poll THEN netCalls + 1 ELSE netCalls
          /\ store' = IF Loadable(store) THEN Dump(Load(store)) ELSE store
          /\ writes' = IF Loadable(store) THEN Append(writes, Stamp(Load(store))) ELSE writes
          /\ last' = [phase |-> IF o.exc # "" THEN "raised"
                                ELSE IF o.poll THEN "await" ELSE "returned",
                      poll |-> o.poll, before |-> store, now |-> clock,
                      n0 |-> Len(results), net0 |-> netCalls, w0 |-> Len(writes),
                      n1 |-> Len(o.results), r0 |-> reads, resp |-> <<>>, now2 |-> clock,
                      prev |-> prev]
          /\ prev' = [prev EXCEPT !.outcome = IF o.exc # "" THEN "raised"
                                              ELSE IF o.poll THEN "await" ELSE "skip"]
          /\ IF o.exc # ""
             THEN Raise(o.exc)
             ELSE /\ pc' = IF o.poll THEN "await" ELSE "main"
                  /\ plist' = IF o.poll THEN Load(store) ELSE EmptyDict
                  /\ UNCHANGED <<exc, exit>>
    /\ UNCHANGED <<clock, out, initial>>
UpdateStart == UpdateStartWithin(MaxUpdates)

\* update() goes on inside the async with blocks with what the fetch resolved to
\* (lines 94-116), and suspends again in leaving them
UpdateInside(resp) ==
    LET o == UpdateResume(plist, results, resp, clock) IN
    /\ results' = o.results
    /\ calls' = calls \o o.added
    /\ last' = [last EXCEPT !.phase = IF o.exc # "" THEN "raised" ELSE "aexit",
                            !.n1 = Len(o.results), !.resp = <<resp>>, !.now2 = clock]
    /\ prev' = IF o.exc # "" THEN [prev EXCEPT !.outcome = "raised"] ELSE prev
    /\ IF o.exc # ""
       THEN Raise(o.exc)
       ELSE /\ pc' = "aexit"
            /\ plist' = o.write[1]
            /\ UNCHANGED <<exc, exit>>

\* session.get resolves (line 93): a transport error leaves update(); a status other
\* than 200 adds "Update failed" (lines 94-99); with status 200 update() suspends in
\* response.json() (line 101)
UpdateStatus ==
    /\ pc = "await"
    /\ \E resp \in Statuses :
          IF Has(resp, "status") /\ resp["status"] = 200
          THEN /\ pc' = "json"
               /\ last' = [last EXCEPT !.phase = "json"]
               /\ UNCHANGED <<plist, results, exc, exit, calls, prev>>
          ELSE UpdateInside(resp)
    /\ UNCHANGED <<clock, store, out, netCalls, updates, writes, reads, initial>>

\* response.json() resolves (line 101) and lines 102-116 run
UpdateBody ==
    /\ pc = "json"
    /\ \E resp \in Bodies : UpdateInside(resp)
    /\ UNCHANGED <<clock, store, out, netCalls, updates, writes, reads, initial>>

\* both async with blocks are left and line 117 opens info.plist with "wb", which
\* empties it
UpdateOpen ==
    /\ pc = "aexit"
    /\ pc' = "dump"
    /\ store' = Truncated
    /\ last' = [last EXCEPT !.phase = "dump"]
    /\ UNCHANGED <<clock, plist, results, out, exit, exc, netCalls, updates, calls,
                   writes, reads, initial, prev>>

\* line 118 dumps the dict, the file is closed and update() returns
UpdateDump ==
    /\ pc = "dump"
    /\ pc' = "main"
    /\ store' = Dump(plist)
    /\ writes' = Append(writes, Stamp(plist))
    /\ plist' = EmptyDict
    /\ last' = [last EXCEPT !.phase = "returned"]
    /\ prev' = IF last.resp[1]["status"] # 200
               THEN [prev EXCEPT !.outcome = "failed"]
               ELSE [outcome |-> "fetched", ok |-> Stamp(plist)]
    /\ UNCHANGED <<clock, results, out, exit, exc, netCalls, updates, calls, reads,
                   initial>>

Next ==
    \/ Tick
    \/ Start
    \/ MainAddResult
    \/ UpdateStart
    \/ UpdateStatus
    \/ UpdateBody
    \/ UpdateOpen
    \/ UpdateDump
    \/ RunResponse
    \/ error_response
    \/ Kill

Spec == Init /\ [][Next]_vars

\* The behaviours that begin with a record in which needupdate is false or absent.
InitFresh ==
    /\ Init
    /\ Loadable(store)
    /\ ~Get(Load(store), "needupdate", FALSE)

NextFresh ==
    \/ Tick
    \/ Start
    \/ MainAddResult
    \/ UpdateStartWithin(MaxUpdatesFresh)
    \/ UpdateStatus
    \/ UpdateBody
    \/ UpdateOpen
    \/ UpdateDump
    \/ RunResponse
    \/ error_response
    \/ Kill

SpecFresh == InitFresh /\ [][NextFresh]_vars

\* ------------------------------------------------------------------ claims
\* The ordering the specification names: major, then minor, then patch, a missing
\* number counting as 0, and a pre-release before its release.
SemKey(s) == [n \in 1..3 |-> IF n <= Len(s.rel) THEN s.rel[n] ELSE 0]
SemGreater(a, b) ==
    LET x == SemKey(a)
        y == SemKey(b)
    IN  \/ x[1] > y[1]
        \/ x[1] = y[1] /\ x[2] > y[2]
        \/ x[1] = y[1] /\ x[2] = y[2] /\ x[3] > y[3]
        \/ x = y /\ b.pre # 0 /\ (a.pre = 0 \/ a.pre > b.pre)

\* the latest update() call began on an existing record within the poll interval
LastWithinInterval ==
    /\ last.phase # "none"
    /\ Loadable(last.before)
    /\ last.now - TicksPerSecond * Get(Load(last.before), "lastcheckedtime", 0)
          <= PollInterval * TicksPerSecond
\* the latest update() call began on an existing record past the poll interval
LastPastInterval ==
    /\ last.phase # "none"
    /\ Loadable(last.before)
    /\ last.now - TicksPerSecond * Get(Load(last.before), "lastcheckedtime", 0)
          > PollInterval * TicksPerSecond
\* the latest update() call has returned after a fetch with status 200 whose newest
\* release holds a tag and an asset
LastFetched ==
    /\ LastPastInterval
    /\ last.phase = "returned"
    /\ Has(last.resp[1], "status")
    /\ last.resp[1]["status"] = 200
LastTag == last.resp[1]["releases"][1]["tag_name"]
LastUrl == last.resp[1]["releases"][1]["assets"][1]["browser_download_url"]
LastCurrent == Load(last.before)["version"]
\* the latest update() call has returned after a fetch with a status other than 200
LastFailed ==
    /\ LastPastInterval
    /\ last.phase = "returned"
    /\ Has(last.resp[1], "status")
    /\ last.resp[1]["status"] # 200

\* C1: an update() call that begins with now - lastcheckedtime <= 7 days (an absent
\* lastcheckedtime counting as 0, equality included) issues no network call: it
\* returns without suspending and the process's count of calls is as it was.
C1_NoNetworkWithinInterval ==
    LastWithinInterval => last.phase # "await" /\ ~last.poll /\ netCalls = last.net0
\* the call began exactly 7 days after epoch on a record with no lastcheckedtime
C1_Witness ==
    /\ LastWithinInterval
    /\ last.phase = "returned"
    /\ ~Has(Load(last.before), "lastcheckedtime")
    /\ last.now = PollInterval * TicksPerSecond

\* C2: after a poll that fetched a release whose tag is semantically greater than the
\* current version, info.plist holds needupdate = TRUE, the fetched tag and the first
\* asset's url, and the call added exactly one result, "Update available current ->
\* latest", whose arg is that url.
C2_NewerSetsPending ==
    LastFetched /\ SemGreater(LastTag, LastCurrent) =>
        /\ Loadable(store)
        /\ Get(Load(store), "needupdate", FALSE) = TRUE
        /\ Load(store)["latestversion"] = LastTag
        /\ Load(store)["downloadurl"] = LastUrl
        /\ last.n1 = last.n0 + 1
        /\ results[last.n1].title = AvailableTitle(LastCurrent, LastTag)
        /\ results[last.n1].arg = LastUrl
\* scenario A: current 1.0.0, not pending, fetched 1.1.0 with two assets
C2_Witness ==
    /\ LastFetched
    /\ LastCurrent = V_1_0_0
    /\ LastTag = V_1_1_0
    /\ ~Get(Load(last.before), "needupdate", FALSE)
    /\ Len(last.resp[1]["releases"][1]["assets"]) = 2
    /\ Load(store)["needupdate"] = TRUE

\* C3: after a poll that fetched a release whose tag is not semantically greater than
\* the current version, needupdate in info.plist is as it was when the call began:
\* absent if it was absent, else the same value.
C3_NotNewerKeepsFlag ==
    LastFetched /\ ~SemGreater(LastTag, LastCurrent) =>
        /\ Loadable(store)
        /\ Has(Load(store), "needupdate") <=> Has(Load(last.before), "needupdate")
        /\ Has(Load(store), "needupdate") =>
              Load(store)["needupdate"] = Load(last.before)["needupdate"]
\* a pending record polled again, the fetched tag being another spelling of the
\* current version
C3_Witness ==
    /\ LastFetched
    /\ ~SemGreater(LastTag, LastCurrent)
    /\ LastTag = V_v1_0
    /\ Has(Load(last.before), "needupdate")
    /\ Load(last.before)["needupdate"] = TRUE
    /\ Load(store)["needupdate"] = TRUE

\* C4: after a poll whose fetch returned a status other than 200, the call has added
\* exactly one result, "Update failed", and every field of info.plist is as it was
\* when the call began.
C4_FailedPollKeepsRecord ==
    LastFailed =>
        /\ last.n1 = last.n0 + 1
        /\ results[last.n1].title = FailedTitle
        /\ Loadable(store)
        /\ Load(store) = Load(last.before)
\* scenario C on a pending record: all five fields are there to be kept
C4_Witness ==
    /\ LastFailed
    /\ last.resp[1]["status"] = 500
    /\ Has(Load(last.before), "needupdate")
    /\ Has(Load(last.before), "lastcheckedtime")
    /\ Load(store) = Load(last.before)

\* C5: an update() call that begins within the poll interval returns without a
\* network call; if the stored needupdate is true it has added exactly one result,
\* "Update available" with the stored version, latestversion and downloadurl, and
\* otherwise (needupdate false or absent) it has added none.
C5_SkipPathReproducesPending ==
    LastWithinInterval =>
        /\ last.phase = "returned"
        /\ netCalls = last.net0
        /\ LET d == Load(last.before) IN
           IF Get(d, "needupdate", FALSE) = TRUE
           THEN /\ last.n1 = last.n0 + 1
                /\ results[last.n1].title = AvailableTitle(d["version"], d["latestversion"])
                /\ results[last.n1].arg = d["downloadurl"]
           ELSE last.n1 = last.n0
\* scenario B: the stored 1.0.0 -> 1.1.0 with url1 is announced again
C5_Witness ==
    /\ LastWithinInterval
    /\ last.phase = "returned"
    /\ Get(Load(last.before), "needupdate", FALSE) = TRUE
    /\ results[last.n1].title = AvailableTitle(V_1_0_0, V_1_1_0)
    /\ results[last.n1].arg = "url1"

\* an error arose in the latest update() call: info.plist was missing, the fetch
\* failed in transport or by status, or the release list was empty or its newest
\* release held no tag or no asset
LastErrorArose ==
    /\ last.phase \in {"returned", "raised"}
    /\ \/ ~Loadable(last.before)
       \/ /\ last.resp # <<>>
          /\ LET resp == last.resp[1] IN
             IF Has(resp, "error") THEN TRUE
             ELSE IF resp["status"] # 200 THEN TRUE
             ELSE IF resp["releases"] = <<>> THEN TRUE
             ELSE \/ ~Has(resp["releases"][1], "tag_name")
                  \/ resp["releases"][1]["assets"] = <<>>

\* C6: whenever an error of one of the four kinds arises in update(), the call
\* returns having added exactly one "Update failed" result, and no exception leaves
\* it to end the process.
C6_ErrorsBecomeFailedResult ==
    LastErrorArose =>
        /\ last.phase = "returned"
        /\ exc = ""
        /\ last.n1 = last.n0 + 1
        /\ results[last.n1].title = FailedTitle

\* C7: an update() call that finds no info.plist, more than 7 days after epoch,
\* proceeds as if lastcheckedtime were 0: it issues the network call and raises
\* nothing.
C7_MissingRecordPolls ==
    last.phase # "none" /\ ~Exists(last.before)
            /\ last.now > PollInterval * TicksPerSecond =>
        last.poll /\ last.phase # "raised" /\ netCalls = last.net0 + 1

\* C8: the lastcheckedtime of each dump to info.plist is at least that of every
\* earlier dump and at least the one initially stored.
C8_LastCheckedMonotonic ==
    \A j \in 1..Len(writes) :
        writes[j] # <<>> =>
            /\ \A i \in 1..(j - 1) : writes[i] # <<>> => writes[i][1] <= writes[j][1]
            /\ (Loadable(initial) /\ Has(Load(initial), "lastcheckedtime")) =>
                  Load(initial)["lastcheckedtime"] <= writes[j][1]
\* two polls have stamped info.plist, the second later than the first, and the
\* record had a lastcheckedtime to begin with
C8_Witness ==
    /\ Len(writes) >= 2
    /\ writes[1] # <<>>
    /\ writes[1][1] < writes[2][1]
    /\ Loadable(initial)
    /\ Has(Load(initial), "lastcheckedtime")

\* C9: once response() has run, the process has printed exactly one payload, whose
\* items are the add_result calls of the process, one entry per call and in call
\* order, those made by update() included; nothing is printed after it.
C9_PayloadIsCallsInOrder ==
    /\ Len(out) <= 1
    /\ pc = "exited" =>
          /\ Len(out) = 1
          /\ Len(out[1].items) = Len(calls)
          /\ \A i \in 1..Len(calls) :
                /\ out[1].items[i].title = calls[i][1]
                /\ out[1].items[i].arg = calls[i][2]
\* a payload of a main's own result followed by update()'s
C9_Witness ==
    /\ pc = "exited"
    /\ Len(calls) = 2
    /\ calls[1][1] \in {it.title : it \in UserItems}
    /\ calls[2][1][1] = "Update available"
    /\ Len(out) = 1

\* C10: every process started through run(main) that has ended, unless the host
\* killed it, has printed exactly one payload, that of its results, and exited with
\* code 0: a failure of the update check is a result item, never a nonzero exit.
C10_EveryRunEndsWithPayload ==
    exit # <<>> /\ pc # "killed" =>
        /\ pc = "exited"
        /\ exit = <<0>>
        /\ Len(out) = 1
        /\ out[1] = Payload(results)

\* C11: after a poll that fetched a release with a tag and an asset, newer or not,
\* info.plist holds the fetched tag as latestversion, the first asset's url as
\* downloadurl, as lastcheckedtime the whole seconds of the clock when the response
\* was handled, and the version it held before.
C11_SuccessRecordsFetch ==
    LastFetched =>
        /\ Loadable(store)
        /\ LET d == Load(store) IN
              /\ d["latestversion"] = LastTag
              /\ d["downloadurl"] = LastUrl
              /\ TicksPerSecond * d["lastcheckedtime"] <= last.now2
              /\ last.now2 < TicksPerSecond * (d["lastcheckedtime"] + 1)
              /\ d["version"] = LastCurrent
\* a fetch of a tag that is not newer, handled after the clock had moved on to a
\* fraction of a second
C11_Witness ==
    /\ LastFetched
    /\ ~SemGreater(LastTag, LastCurrent)
    /\ last.now2 > last.now
    /\ last.now2 % TicksPerSecond # 0
    /\ Load(store)["latestversion"] = LastTag

\* C12: the update() call that follows one whose poll failed by status issues the
\* network call again, whatever the clock then reads.
C12_FailedPollRetried ==
    last.phase # "none" /\ last.prev.outcome = "failed" =>
        last.poll /\ netCalls = last.net0 + 1
\* a retry in a later process, after more time has passed
C12_Witness ==
    /\ last.phase = "returned"
    /\ last.prev.outcome = "failed"
    /\ last.poll
    /\ last.net0 = 0
    /\ last.now > PollInterval * TicksPerSecond + 1

\* C13: an update() call loads info.plist once and dumps it at most once, dumps it
\* only after it has issued the network call, and on the skip path dumps nothing and
\* leaves info.plist as it was.
C13_ReadOnceWriteOnPoll ==
    last.phase # "none" =>
        /\ reads = last.r0 + (IF Exists(last.before) THEN 1 ELSE 0)
        /\ Len(writes) <= last.w0 + 1
        /\ Len(writes) > last.w0 => last.poll /\ netCalls = last.net0 + 1
        /\ ~last.poll => store = last.before /\ Len(writes) = last.w0
\* the second update() call of a process polled and dumped once, after a first call
\* on the skip path that dumped nothing
C13_Witness ==
    /\ last.phase = "returned"
    /\ last.poll
    /\ Len(writes) = last.w0 + 1
    /\ reads = 2
    /\ last.prev.outcome = "skip"

\* info.plist holds needupdate = TRUE
PersistedPending == Loadable(store) /\ Get(Load(store), "needupdate", FALSE) = TRUE

\* C14: no step takes info.plist from a record with needupdate = TRUE to a record
\* without it: a step that leaves a record in info.plist leaves needupdate = TRUE if
\* the record before it held that, or, when the step is the dump of lines 117-118,
\* if the record this update() call loaded held it.
C14_PendingIsSticky ==
    [][(/\ Loadable(store')
        /\ \/ PersistedPending
           \/ /\ pc = "dump"
              /\ Loadable(last.before)
              /\ Get(Load(last.before), "needupdate", FALSE) = TRUE)
       => PersistedPending']_vars
\* a pending record after a later poll that fetched a tag older than the current
\* version
C14_Witness ==
    /\ PersistedPending
    /\ LastFetched
    /\ LastTag = V_1_0_0rc1
    /\ LastCurrent = V_1_0_0
    /\ Get(Load(last.before), "needupdate", FALSE) = TRUE

\* C15: an update() call that has returned added no result or exactly one, and that
\* one is "Update available" or "Update failed".
C15_AtMostOneResult ==
    last.phase = "returned" =>
        /\ last.n1 \in {last.n0, last.n0 + 1}
        /\ last.n1 = last.n0 + 1 =>
              \/ results[last.n1].title = FailedTitle
              \/ results[last.n1].title[1] = "Update available"
\* a failed poll on a pending record: only "Update failed" was added
C15_Witness ==
    /\ LastFailed
    /\ Get(Load(last.before), "needupdate", FALSE) = TRUE
    /\ last.n1 = last.n0 + 1
    /\ results[last.n1].title = FailedTitle

\* C16: while update() is suspended in the network call (in session.get or in the
\* read of the body), and if the process is killed there, info.plist is the file
\* that was loaded and nothing has been dumped.
C16_NoWriteBeforeResponse ==
    last.phase \in {"await", "json"} => store = last.before /\ Len(writes) = last.w0
\* the process was killed in the read of the body, some time after update() began
C16_Witness ==
    /\ pc = "killed"
    /\ last.phase = "json"
    /\ clock > last.now
    /\ store = last.before

\* C17: an update() call that begins no more than 7 days after the lastcheckedtime
\* the most recent successful poll recorded issues no network call.
C17_NoPollWithinIntervalOfSuccess ==
    (/\ last.phase # "none"
     /\ last.prev.ok # <<>>
     /\ last.now - TicksPerSecond * last.prev.ok[1] <= PollInterval * TicksPerSecond) =>
        ~last.poll /\ netCalls = last.net0
\* a call in a later process, later than the recorded time, within the interval
C17_Witness ==
    /\ last.phase = "returned"
    /\ last.prev.ok # <<>>
    /\ last.n0 = 0
    /\ last.now > TicksPerSecond * last.prev.ok[1]
    /\ last.now - TicksPerSecond * last.prev.ok[1] <= PollInterval * TicksPerSecond
    /\ ~last.poll

\* C18: every "Update available X -> Y" result a process has added announces a Y
\* that is semantically greater than X.
C18_AnnouncedIsGreater ==
    \A i \in 1..Len(calls) :
        calls[i][1][1] = "Update available" =>
            SemGreater(calls[i][1][3], calls[i][1][2])

\* C19: in behaviours that begin with needupdate false or absent, whenever
\* info.plist holds needupdate = TRUE it holds latestversion and downloadurl too, and
\* no update() call raises KeyError on the skip path.
C19_PendingHasFields ==
    (Loadable(initial) /\ ~Get(Load(initial), "needupdate", FALSE)) =>
        /\ PersistedPending =>
              Has(Load(store), "latestversion") /\ Has(Load(store), "downloadurl")
        /\ ~(last.phase = "raised" /\ ~last.poll /\ exc = "KeyError")
\* a record that began with version alone, is now pending, and was announced from
\* the stored fields on the skip path
C19_Witness ==
    /\ Loadable(initial)
    /\ DOMAIN Load(initial) = {"version"}
    /\ PersistedPending
    /\ last.phase = "returned"
    /\ ~last.poll
    /\ last.n1 = last.n0 + 1

====
